---- MODULE Spec2Model ----
\* Emergency-vehicle signal preemption controller (src/app.py): the control
\* loop run(), the detection scan inside it, and perform_preemption(), run
\* against a SUMO/TraCI simulation that is modelled as a nondeterministic
\* environment.
EXTENDS Integers, Sequences, FiniteSets, TLC

\* ------------------------------------------------------------------ bounds
NumVeh == 2          \* vehicles the simulation loads
NumLanes == 2        \* lanes (= signal-state string positions) of the light
MaxPhases == 4       \* largest phase count of the light's program

\* ------------------------------------------------- program constants
YellowDuration == 3  \* setPhaseDuration(tl_id, 3)
YellowSteps == 1     \* one simulationStep() between yellow and EV green
UrgencyMax == 10     \* urgency=1.0, in tenths
QueueMax == 50       \* np.arange(0, 51, 1), the universe of queue
GreenOffset == 1     \* current_phase + 1
RestoreOffset == 2   \* current_phase + 2

Veh == 1..NumVeh
Lanes == 0..(NumLanes - 1)
NoPhase == -1        \* current_phase before line 68 has run

VARIABLES
    n,          \* phase count of the light's program (getPhaseNumber)
    veh,        \* veh[v]: Pending, Gone, or OnLane(l, t, i): v is in the
                \* network on lane l, "emergency" is (t) or is not a
                \* substring of its type id, and (i) of its vehicle id
    tlPhase,    \* the light's current phase index
    pc,         \* position of the program
    idList,     \* rest of the id list the for loop of run() iterates
    sessions,   \* open perform_preemption calls, innermost first
    cmd,        \* the trafficlight command the latest step issued, if any
    iterSessions, \* sessions started in the current iteration of run()'s loop
    closed      \* number of traci.close() calls

vars == <<n, veh, tlPhase, pc, idList, sessions, cmd,
          iterSessions, closed>>

\* ------------------------------------------------------------ environment

\* getRedYellowGreenState: the signal-state string of a phase, one character
\* per lane.  The light's program serves lane after lane, a green phase and
\* then a yellow phase for each; every other lane shows red.
RYGState(ph) ==
    [i \in Lanes |->
        IF (ph \div 2) % NumLanes = i
        THEN (IF ph % 2 = 0 THEN "G" ELSE "y")
        ELSE "r"]

\* Where a vehicle is: waiting to depart, on a lane, or out of the network.
Pending == <<"pending", 0, FALSE, FALSE>>
Gone == <<"gone", 0, FALSE, FALSE>>
OnLane(l, t, i) == <<"lane", l, t, i>>
VehStates ==
    {Pending, Gone} \cup {OnLane(l, t, i) : l \in Lanes, t \in BOOLEAN, i \in BOOLEAN}

\* traci.lane.getIndex
LaneIndex(l) == l

\* traci.vehicle.getIDList
Present == {v \in Veh : veh[v][1] = "lane"}

\* traci.vehicle.getLaneID
LaneOf(v) == veh[v][2]

\* traci.simulation.getMinExpectedNumber
MinExpected == Cardinality({v \in Veh : veh[v] # Gone})

\* traci.lane.getLastStepVehicleNumber
LaneVehicleNumber(l) == Cardinality({v \in Present : LaneOf(v) = l})

\* What one simulation step may do to a vehicle: depart onto a lane (its
\* ids are any), arrive and leave the network, or stay where it is.  The
\* network is the approach to the light: a vehicle keeps its lane.
VehAdvance(a) ==
    CASE a = Pending -> {Pending} \cup (VehStates \ {Gone})
      [] a = Gone -> {Gone}
      [] OTHER -> {a, Gone}

\* The vehicle states a step may lead to, for vehicles 1..k of f.
RECURSIVE VehSteps(_, _)
VehSteps(f, k) ==
    IF k = 0 THEN {<<>>}
    ELSE {Append(s, x) : s \in VehSteps(f, k - 1), x \in VehAdvance(f[k])}

\* The light cycles on its own: a step keeps the phase or moves to the next.
PhaseAdvance(ph) == {ph, (ph + 1) % n}

\* traci.simulationStep()
simulationStep ==
    /\ veh' \in VehSteps(veh, NumVeh)
    /\ tlPhase' \in PhaseAdvance(tlPhase)

\* traci.trafficlight.setPhase accepts an index of the program only.
PhaseIndexOk(i) == 0 <= i /\ i < n

\* --------------------------------------------------------------- program

\* "emergency" in veh_type (line 99)
IsEmergencyType(v) == veh[v][3]

\* "emergency" in vid (line 80)
IsEmergencyId(v) == veh[v][4]

\* A trafficlight command: <<name, argument>>, the argument a fraction.
NoCmd == <<"none", 0, 1>>
SetPhaseCmd(i) == <<"setPhase", i, 1>>
SetPhaseDurationCmd(d) == <<"setPhaseDuration", d[1], d[2]>>

Init ==
    /\ n \in 1..MaxPhases
    /\ veh = [v \in Veh |-> Pending]
    /\ tlPhase = 0
    /\ pc = "loop"
    /\ idList = <<>>
    /\ sessions = <<>>
    /\ cmd = NoCmd
    /\ iterSessions = 0
    /\ closed = 0

\* The id list in the order the simulator reports it.
RECURSIVE SeqOf(_)
SeqOf(S) ==
    IF S = {} THEN <<>>
    ELSE LET m == CHOOSE x \in S : \A y \in S : x <= y
         IN <<m>> \o SeqOf(S \ {m})

\* run(), lines 93-97: the loop test succeeds, time advances one step and
\* the for loop takes the vehicle id list.
LoopStep ==
    /\ pc = "loop"
    /\ MinExpected > 0
    /\ simulationStep
    /\ idList' = SeqOf({v \in Veh : veh'[v][1] = "lane"})
    /\ iterSessions' = 0
    /\ cmd' = NoCmd
    /\ pc' = "scan"
    /\ UNCHANGED <<n, sessions, closed>>

\* run(), lines 93 and 112: the loop test fails and the connection is closed.
LoopExit ==
    /\ pc = "loop"
    /\ MinExpected = 0
    /\ closed' = closed + 1
    /\ cmd' = NoCmd
    /\ pc' = "done"
    /\ UNCHANGED <<n, veh, tlPhase, idList, sessions, iterSessions>>

\* ------------------------------------------------------ fuzzy inference
\* Membership degrees are kept as integers, scaled by MuScale.
MuScale == 60

Min2(a, b) == IF a <= b THEN a ELSE b
Max2(a, b) == IF a >= b THEN a ELSE b

\* fuzz.trimf(universe, [a, b, c]) at x, times MuScale.
trimf(x, a, b, c) ==
    LET up == IF a = b THEN (IF x = b THEN MuScale ELSE 0)
              ELSE IF a < x /\ x <= b THEN (MuScale * (x - a)) \div (b - a)
              ELSE 0
        down == IF b = c THEN (IF x = b THEN MuScale ELSE 0)
                ELSE IF b <= x /\ x < c THEN (MuScale * (c - x)) \div (c - b)
                ELSE 0
    IN Max2(up, down)

GreenTerms == {"short", "medium", "long", "very_long"}

\* queue[...] with 'medium' starting where 'low' ends: no term covers 15.
QueueMu_Gap(t, q) ==
    CASE t = "low" -> trimf(q, 0, 0, 15)
      [] t = "medium" -> trimf(q, 15, 25, 40)
      [] t = "high" -> trimf(q, 30, 50, 50)

\* queue[...] (lines 24-26), on the universe 0..50
QueueMu(t, q) ==
    CASE t = "low" -> trimf(q, 0, 0, 15)
      [] t = "medium" -> trimf(q, 10, 25, 40)
      [] t = "high" -> trimf(q, 30, 50, 50)

\* urgency[...] (lines 28-30), on the universe 0..10 tenths
UrgencyMu(t, u) ==
    CASE t = "low" -> trimf(u, 0, 0, 4)
      [] t = "medium" -> trimf(u, 2, 5, 8)
      [] t = "high" -> trimf(u, 6, 10, 10)

\* green_time[...] (lines 32-35), on the universe 0..60
GreenMu(t, x) ==
    CASE t = "short" -> trimf(x, 0, 10, 20)
      [] t = "medium" -> trimf(x, 15, 25, 35)
      [] t = "long" -> trimf(x, 30, 45, 55)
      [] t = "very_long" -> trimf(x, 50, 60, 60)

\* rule1..rule9 with the consequents of rule1 and rule3 exchanged.
Rules_Swapped ==
    { <<"low", "low", "long">>,       <<"low", "medium", "medium">>,
      <<"low", "high", "short">>,     <<"medium", "low", "medium">>,
      <<"medium", "medium", "long">>, <<"medium", "high", "very_long">>,
      <<"high", "low", "long">>,      <<"high", "medium", "very_long">>,
      <<"high", "high", "very_long">> }

\* rule1..rule9 (lines 37-45): <<queue term, urgency term, green_time term>>
Rules ==
    { <<"low", "low", "short">>,      <<"low", "medium", "medium">>,
      <<"low", "high", "long">>,      <<"medium", "low", "medium">>,
      <<"medium", "medium", "long">>, <<"medium", "high", "very_long">>,
      <<"high", "low", "long">>,      <<"high", "medium", "very_long">>,
      <<"high", "high", "very_long">> }

\* Inputs are clipped to the universes of their variables.
Clip(x, lo, hi) == Max2(lo, Min2(x, hi))

\* Firing strength of a rule: the minimum of its antecedent memberships.
Firing(r, q, u) == Min2(QueueMu(r[1], q), UrgencyMu(r[2], u))

MaxOf(S) == IF S = {} THEN 0 ELSE CHOOSE m \in S : \A y \in S : y <= m

\* The strength each green_time term is cut at: the maximum firing strength
\* of the rules that conclude it.
Cut(t, q, u) == MaxOf({Firing(r, q, u) : r \in {rr \in Rules : rr[3] = t}})

\* The aggregated output curve over the universe 0..60: every term clipped at
\* its cut, the maximum over the terms.
Aggregated(cut) ==
    [x \in 0..60 |-> MaxOf({Min2(cut[t], GreenMu(t, x)) : t \in GreenTerms})]

RECURSIVE SumMu(_, _)
SumMu(curve, x) == IF x < 0 THEN 0 ELSE curve[x] + SumMu(curve, x - 1)

RECURSIVE SumXMu(_, _)
SumXMu(curve, x) == IF x < 0 THEN 0 ELSE x * curve[x] + SumXMu(curve, x - 1)

\* defuzzification dividing the moment by the membership scale instead of
\* the sum of the memberships.
Centroid_Unnormalised(curve) == <<SumXMu(curve, 60), MuScale>>

\* defuzzification: the centroid of the curve, <<numerator, denominator>>.
Centroid(curve) == <<SumXMu(curve, 60), SumMu(curve, 60)>>

\* get_fuzzy_green (lines 52-56): the centroid of the aggregated curve over
\* the output universe 0..60, as <<numerator, denominator>>; a zero
\* denominator is the engine's failure to compute.
get_fuzzy_green(queue_len, urgency_level) ==
    LET q == Clip(queue_len, 0, 50)
        u == Clip(urgency_level, 0, 10)
    IN Centroid(Aggregated([t \in GreenTerms |-> Cut(t, q, u)]))

\* get_fuzzy_green at the arguments line 108 can pass: the number of vehicles
\* on a lane, and urgency 1.0.
GreenDurations ==
    [q \in 0..NumVeh |-> [u \in {UrgencyMax} |-> get_fuzzy_green(q, u)]]

\* ------------------------------------------------------------- the scan

NextVeh == Head(idList)

\* Line 106 with yellow taken for red as well.
LaneIsRed_OrYellow(v) ==
    RYGState(tlPhase)[LaneIndex(LaneOf(v))] \in {"r", "y"}

\* state[lane_index] == 'r' (lines 100-106)
LaneIsRed(v) == RYGState(tlPhase)[LaneIndex(LaneOf(v))] = "r"

\* The call of perform_preemption at line 108: its arguments, and its locals
\* before it has run.  entryPhase is the light's phase as the call is made,
\* yellowGap the simulated steps taken since line 70.
PreemptionCall(v) ==
    [ev_lane |-> LaneOf(v),
     queue_len |-> LaneVehicleNumber(LaneOf(v)),
     urgency |-> UrgencyMax,
     green_duration |-> <<0, 0>>,
     current_phase |-> NoPhase,
     state |-> "NORMAL",
     acted |-> FALSE,
     entryPhase |-> tlPhase,
     yellowGap |-> 0]

\* Line 97 exhausted, line 110: back to the loop test.
ScanDone ==
    /\ pc = "scan"
    /\ idList = <<>>
    /\ cmd' = NoCmd
    /\ pc' = "loop"
    /\ UNCHANGED <<n, veh, tlPhase, idList, sessions, iterSessions, closed>>

\* Line 98: getTypeID of a vehicle that has left the network raises.
ScanLookupFail ==
    /\ pc = "scan"
    /\ idList # <<>>
    /\ NextVeh \notin Present
    /\ cmd' = NoCmd
    /\ pc' = "crashed"
    /\ UNCHANGED <<n, veh, tlPhase, idList, sessions, iterSessions, closed>>

\* Lines 98-99: not an emergency type.
ScanSkip ==
    /\ pc = "scan"
    /\ idList # <<>>
    /\ NextVeh \in Present
    /\ ~IsEmergencyType(NextVeh)
    /\ idList' = Tail(idList)
    /\ cmd' = NoCmd
    /\ UNCHANGED <<n, veh, tlPhase, pc, sessions, iterSessions, closed>>

\* Lines 99-106 with the controller extending the green an emergency vehicle
\* already has, outside any session.
ScanNotRed_Extend ==
    /\ pc = "scan"
    /\ idList # <<>>
    /\ NextVeh \in Present
    /\ IsEmergencyType(NextVeh)
    /\ ~LaneIsRed(NextVeh)
    /\ idList' = Tail(idList)
    /\ cmd' = SetPhaseDurationCmd(
                  GreenDurations[LaneVehicleNumber(LaneOf(NextVeh))][UrgencyMax])
    /\ UNCHANGED <<n, veh, tlPhase, pc, sessions, iterSessions, closed>>

\* Lines 99-106: an emergency type whose lane does not show red.
ScanNotRed ==
    /\ pc = "scan"
    /\ idList # <<>>
    /\ NextVeh \in Present
    /\ IsEmergencyType(NextVeh)
    /\ ~LaneIsRed(NextVeh)
    /\ idList' = Tail(idList)
    /\ cmd' = NoCmd
    /\ UNCHANGED <<n, veh, tlPhase, pc, sessions, iterSessions, closed>>

\* Lines 99-108: an emergency type on a red lane; perform_preemption is called.
ScanEmit ==
    /\ pc = "scan"
    /\ idList # <<>>
    /\ NextVeh \in Present
    /\ IsEmergencyType(NextVeh)
    /\ LaneIsRed(NextVeh)
    /\ sessions' = <<PreemptionCall(NextVeh)>> \o sessions
    /\ iterSessions' = iterSessions + 1
    /\ idList' = Tail(idList)
    /\ cmd' = NoCmd
    /\ pc' = "pp_compute"
    /\ UNCHANGED <<n, veh, tlPhase, closed>>

\* --------------------------------------------------- perform_preemption

Sess == Head(sessions)
SetSess(r) == <<r>> \o Tail(sessions)

\* Lines 61-65: the green duration from the fuzzy engine; the engine raises
\* when it cannot compute one.
PPCompute ==
    /\ pc = "pp_compute"
    /\ \E g \in {GreenDurations[Sess.queue_len][Sess.urgency]} :
          IF g[2] = 0
          THEN /\ pc' = "crashed"
               /\ UNCHANGED sessions
          ELSE /\ pc' = "pp_read"
               /\ sessions' = SetSess([Sess EXCEPT !.green_duration = g])
    /\ cmd' = NoCmd
    /\ UNCHANGED <<n, veh, tlPhase, idList, iterSessions, closed>>

\* Lines 68-69: current_phase = getPhase(tl_id).
PPReadPhase ==
    /\ pc = "pp_read"
    /\ sessions' = SetSess([Sess EXCEPT !.current_phase = tlPhase])
    /\ cmd' = NoCmd
    /\ pc' = "pp_yellow"
    /\ UNCHANGED <<n, veh, tlPhase, idList, iterSessions, closed>>

\* Line 70: setPhaseDuration(tl_id, 3).
PPYellow ==
    /\ pc = "pp_yellow"
    /\ cmd' = SetPhaseDurationCmd(<<YellowDuration, 1>>)
    /\ sessions' = SetSess([Sess EXCEPT !.state = "YELLOW_CLEARANCE",
                                        !.acted = TRUE,
                                        !.yellowGap = 0])
    /\ pc' = "pp_yellow_step"
    /\ UNCHANGED <<n, veh, tlPhase, idList, iterSessions, closed>>

\* Lines 71-72: one simulationStep(), then a wall-clock sleep.
PPYellowStep ==
    /\ pc = "pp_yellow_step"
    /\ simulationStep
    /\ sessions' = SetSess([Sess EXCEPT !.acted = TRUE,
                                        !.yellowGap = @ + YellowSteps])
    /\ cmd' = NoCmd
    /\ pc' = "pp_green"
    /\ UNCHANGED <<n, idList, iterSessions, closed>>

\* Line 73 taking the phase the light shows after the yellow step.
GreenPhase_FromLight(cp) == tlPhase + GreenOffset

\* The phase line 73 commands.
GreenPhase(cp) == cp + GreenOffset

\* Line 73: setPhase(tl_id, current_phase + 1), accepted by the simulator.
PPGreenPhase ==
    /\ pc = "pp_green"
    /\ PhaseIndexOk(GreenPhase(Sess.current_phase))
    /\ cmd' = SetPhaseCmd(GreenPhase(Sess.current_phase))
    /\ tlPhase' = GreenPhase(Sess.current_phase)
    /\ sessions' = SetSess([Sess EXCEPT !.state = "EMERGENCY_GREEN",
                                        !.acted = TRUE])
    /\ pc' = "pp_green_dur"
    /\ UNCHANGED <<n, veh, idList, iterSessions, closed>>

\* Line 73: setPhase with an index outside the program raises.
PPGreenPhaseFail ==
    /\ pc = "pp_green"
    /\ ~PhaseIndexOk(GreenPhase(Sess.current_phase))
    /\ cmd' = SetPhaseCmd(GreenPhase(Sess.current_phase))
    /\ pc' = "crashed"
    /\ UNCHANGED <<n, veh, tlPhase, idList, sessions, iterSessions, closed>>

\* Line 74: setPhaseDuration(tl_id, green_duration).
PPGreenDuration ==
    /\ pc = "pp_green_dur"
    /\ cmd' = SetPhaseDurationCmd(Sess.green_duration)
    /\ pc' = "pp_await"
    /\ UNCHANGED <<n, veh, tlPhase, idList, sessions, iterSessions, closed>>

\* Lines 77-79: ev_present is true, the loop body advances time one step.
PPAwaitStep ==
    /\ pc = "pp_await"
    /\ simulationStep
    /\ sessions' = SetSess([Sess EXCEPT !.state = "AWAIT_CLEARANCE",
                                        !.acted = TRUE])
    /\ cmd' = NoCmd
    /\ pc' = "pp_check"
    /\ UNCHANGED <<n, idList, iterSessions, closed>>

\* evs of line 80: the vehicles present whose id contains "emergency".
Evs == {v \in Present : IsEmergencyId(v)}

\* Lines 80-82 handling a vehicle still present with a preemption of its own.
PPAwaitCheck_Reenter ==
    /\ pc = "pp_check"
    /\ IF Evs = {}
       THEN /\ pc' = "pp_restore"
            /\ UNCHANGED <<sessions, iterSessions>>
       ELSE /\ \E v \in Evs : sessions' = <<PreemptionCall(v)>> \o sessions
            /\ iterSessions' = iterSessions
            /\ pc' = "pp_compute"
    /\ cmd' = NoCmd
    /\ UNCHANGED <<n, veh, tlPhase, idList, closed>>

\* Lines 80-82 and 78: the loop goes on while evs is non-empty.
PPAwaitCheck ==
    /\ pc = "pp_check"
    /\ pc' = IF Evs = {} THEN "pp_restore" ELSE "pp_await"
    /\ cmd' = NoCmd
    /\ UNCHANGED <<n, veh, tlPhase, idList, sessions, iterSessions, closed>>

\* Line 84 restoring from the phase the light shows as the wait ends.
RestorePhase_FromLight(cp) == (tlPhase + 1) % n

\* The phase line 84 commands.
RestorePhase(cp) == (cp + RestoreOffset) % n

\* Lines 83-84: setPhase(tl_id, (current_phase + 2) % getPhaseNumber(tl_id)).
PPRestore ==
    /\ pc = "pp_restore"
    /\ cmd' = SetPhaseCmd(RestorePhase(Sess.current_phase))
    /\ tlPhase' = RestorePhase(Sess.current_phase)
    /\ sessions' = SetSess([Sess EXCEPT !.state = "RESTORING",
                                        !.acted = TRUE])
    /\ pc' = "pp_return"
    /\ UNCHANGED <<n, veh, idList, iterSessions, closed>>

\* perform_preemption returns to the for loop of run().
PPReturn ==
    /\ pc = "pp_return"
    /\ sessions' = Tail(sessions)
    /\ cmd' = NoCmd
    /\ pc' = "scan"
    /\ UNCHANGED <<n, veh, tlPhase, idList, iterSessions, closed>>

\* ------------------------------------------- the fuzzy engine on its own
\* get_fuzzy_green (lines 52-56) called at any point of the input universes:
\* queue 0..QueueMax (line 20), urgency 0..UrgencyMax tenths (line 21).

\* A call of get_fuzzy_green(q, u): the arguments in the record of a call of
\* perform_preemption that has not run, where line 64 takes them from.
FuzzyCall(q, u) ==
    [ev_lane |-> 0,
     queue_len |-> q,
     urgency |-> u,
     green_duration |-> <<0, 0>>,
     current_phase |-> NoPhase,
     state |-> "NORMAL",
     acted |-> FALSE,
     entryPhase |-> 0,
     yellowGap |-> 0]

FuzzyInit ==
    /\ n = 1
    /\ veh = [v \in Veh |-> Pending]
    /\ tlPhase = 0
    /\ pc = "fuzzy_call"
    /\ idList = <<>>
    /\ \E q \in 0..QueueMax, u \in 0..UrgencyMax : sessions = <<FuzzyCall(q, u)>>
    /\ cmd = NoCmd
    /\ iterSessions = 0
    /\ closed = 0

\* Lines 53-56: the inputs are set, compute() runs and the output is
\* returned, or compute() raises.
FuzzyCompute ==
    /\ pc = "fuzzy_call"
    /\ LET g == get_fuzzy_green(Sess.queue_len, Sess.urgency)
       IN /\ sessions' = SetSess([Sess EXCEPT !.green_duration = g])
          /\ pc' = IF g[2] = 0 THEN "fuzzy_error" ELSE "fuzzy_return"
    /\ UNCHANGED <<n, veh, tlPhase, idList, cmd, iterSessions, closed>>

FuzzyNext == FuzzyCompute

FuzzySpec == FuzzyInit /\ [][FuzzyNext]_vars

\* ------------------------------------------------------------ properties

InSession == pc \in {"pp_compute", "pp_read", "pp_yellow", "pp_yellow_step",
                     "pp_green", "pp_green_dur", "pp_await", "pp_check",
                     "pp_restore", "pp_return"}

\* The state of the preemption state machine.
SessState == IF sessions = <<>> THEN "NORMAL" ELSE Sess.state

\* The vehicles the detection scan classifies as emergency vehicles.
EmergencyCategory == {v \in Present : veh[v][3]}

\* C1: with n >= 3 phases, a session that has run to completion (line 84 has
\* run, perform_preemption returns) has commanded (p + 2) mod n last, p the
\* phase of the light as the session started, and that is the light's phase,
\* whatever the simulator did to the phase in between.
C1_RestoredPhase ==
    (pc = "pp_return" /\ n >= 3) =>
        /\ cmd = <<"setPhase", (Sess.entryPhase + 2) % n, 1>>
        /\ tlPhase = (Sess.entryPhase + 2) % n

\* C1 witness: a completed session whose restored phase wrapped around.
C1_Witness ==
    /\ pc = "pp_return"
    /\ n >= 3
    /\ Sess.entryPhase + 2 >= n
    /\ tlPhase = (Sess.entryPhase + 2) % n

\* C2: as the session leaves the clearance wait and restores the phase, no
\* vehicle the scan classifies as an emergency vehicle is in the network.
C2_ClearAtRestore ==
    pc \in {"pp_restore", "pp_return"} => EmergencyCategory = {}

\* C3: the light's phase index is always in 0..n-1, and so is every phase
\* index the controller commands with setPhase.
C3_PhaseInRange ==
    /\ 0 <= tlPhase /\ tlPhase < n
    /\ cmd[1] = "setPhase" => (0 <= cmd[2] /\ cmd[2] < n)

\* C4: a session that is in the clearance wait leaves it.
C4_WaitEnds ==
    (SessState = "AWAIT_CLEARANCE") ~> (SessState # "AWAIT_CLEARANCE")

\* C5: at most one session is open at any instant; while the control loop is
\* at its loop test or in its scan no session is open, a trafficlight command
\* comes from the one open session, and a session that ends has restored.
C5_OneSession ==
    /\ Len(sessions) <= 1
    /\ pc \in {"loop", "scan", "done"} => sessions = <<>>
    /\ InSession => Len(sessions) = 1
    /\ cmd # NoCmd => Len(sessions) = 1
    /\ pc = "pp_return" => Sess.state = "RESTORING"

\* C5 witness: the second session of one scan is open, after the first ended.
C5_Witness ==
    /\ Len(sessions) = 1
    /\ iterSessions = 2
    /\ Sess.state = "EMERGENCY_GREEN"

\* C6: every session passes through NORMAL, YELLOW_CLEARANCE,
\* EMERGENCY_GREEN, AWAIT_CLEARANCE, RESTORING, NORMAL: the program never
\* ends with a session stopped on the way (stated for lights of 3 phases or
\* more, where line 84 is meaningful).
C6_SessionCompletes ==
    (n >= 3 /\ pc \in {"done", "crashed"}) => SessState = "NORMAL"

\* The order of the states of the preemption state machine.
StateOrder ==
    { <<"NORMAL", "YELLOW_CLEARANCE">>, <<"YELLOW_CLEARANCE", "EMERGENCY_GREEN">>,
      <<"EMERGENCY_GREEN", "AWAIT_CLEARANCE">>, <<"AWAIT_CLEARANCE", "RESTORING">>,
      <<"RESTORING", "NORMAL">> }

\* The part of C6 that the code keeps: the states a session does reach come
\* in the order of StateOrder, none skipped or repeated, and the session has
\* read the phase of the light (the phase at its start) before it issues its
\* first command or advances time.
C6_ReachedInOrder ==
    [][ /\ SessState' # SessState => <<SessState, SessState'>> \in StateOrder
        /\ (sessions' # <<>> /\ Head(sessions').acted) =>
               Head(sessions').current_phase = Head(sessions').entryPhase
      ]_vars

\* C7: when the session switches to the emergency-green phase, at least the
\* yellow clearance duration has passed in simulated steps since line 70.
C7_YellowElapsed ==
    pc = "pp_green_dur" => Sess.yellowGap >= YellowDuration

\* C8: a scan step for a vehicle in the network starts a session if and only
\* if the vehicle's type is an emergency type and the signal-state character
\* at its lane's index is 'r'; the request carries the number of vehicles on
\* that lane as the step reads it and urgency 1.0; no other step starts one.
C8_RequestIff ==
    [][ /\ (pc = "scan" /\ idList # <<>> /\ veh[Head(idList)][1] = "lane") =>
            LET v == Head(idList)
                lane == veh[v][2]
                onLane == {w \in Veh : veh[w][1] = "lane" /\ veh[w][2] = lane}
            IN /\ (Len(sessions') = Len(sessions) + 1)
                    <=> (veh[v][3] /\ RYGState(tlPhase)[lane] = "r")
               /\ (Len(sessions') = Len(sessions) + 1) =>
                     /\ Head(sessions').ev_lane = lane
                     /\ Head(sessions').queue_len = Cardinality(onLane)
                     /\ Head(sessions').urgency = 10
        /\ (Len(sessions') > Len(sessions)) =>
               (pc = "scan" /\ idList # <<>> /\ veh[Head(idList)][1] = "lane")
      ]_vars

\* C8 witness: a request was emitted for a lane that holds two vehicles.
C8_Witness ==
    /\ pc = "pp_compute"
    /\ Sess.queue_len = 2
    /\ Sess.urgency = 10
    /\ RYGState(tlPhase)[Sess.ev_lane] = "r"

\* C9: at most one session is started within one iteration of the control
\* loop.
C9_OneRequestPerTick == iterSessions <= 1

\* C10: the program ends with the simulation connection closed, exactly once
\* (stated for lights of 3 phases or more).
C10_ClosedOnExit ==
    /\ closed <= 1
    /\ (n >= 3 /\ pc \in {"done", "crashed"}) => closed = 1

\* The exception that ended the program, if one did: getTypeID raises in the
\* scan with no session open, setPhase raises as the latest command of a
\* session, the fuzzy engine raises before the session has issued a command.
Raised ==
    IF pc # "crashed" THEN "none"
    ELSE IF sessions = <<>> THEN "vehicle lookup"
    ELSE IF cmd[1] = "setPhase" THEN "phase index"
    ELSE "defuzzification"

\* C11: a vehicle of the scanned id list that is no longer in the network is
\* skipped: a failed per-vehicle lookup never ends the control loop.
C11_LookupSkipped == Raised # "vehicle lookup"

\* C12: a phase index the simulator rejects does not end the control loop,
\* and a light of fewer than 3 phases is never switched by a session: the
\* session aborts to NORMAL instead.
C12_InconsistencyAborts ==
    /\ Raised # "phase index"
    /\ n < 3 => SessState \in {"NORMAL", "YELLOW_CLEARANCE"}

\* The fuzzy engine never raises in a session: at the arguments line 108
\* passes some rule fires (see C19), so the case C15 is about is not reached.
DefuzzNeverRaises == Raised # "defuzzification"

\* a <= b for fractions <<numerator, denominator>> of positive denominators.
FracLe(a, b) == a[1] * b[2] <= b[1] * a[2]

\* C13: for every integer queue length 0..50 and every urgency 0, 0.1, ...,
\* 1.0, get_fuzzy_green returns a value, and the value lies in [0, 60].
C13_GreenInRange ==
    pc \in {"fuzzy_return", "fuzzy_error"} =>
        /\ Sess.green_duration[2] > 0
        /\ 0 <= Sess.green_duration[1]
        /\ Sess.green_duration[1] <= 60 * Sess.green_duration[2]

\* C13 witness: the call at the top of both universes has returned 57.
C13_Witness ==
    /\ pc = "fuzzy_return"
    /\ Sess.queue_len = QueueMax
    /\ Sess.urgency = UrgencyMax
    /\ Sess.green_duration[1] = 57 * Sess.green_duration[2]

\* C14: for every queue length the value returned at urgency 0 is at most
\* the value at 0.5, and that at most the value at 1.0; for each of these
\* urgencies the value returned at queue 0 is at most the value at 25, and
\* that at most the value at 50.
C14_Monotone ==
    (pc = "fuzzy_return" /\ Sess.urgency \in {0, 5, 10}) =>
        /\ \A u2 \in {0, 5, 10} :
               Sess.urgency <= u2 =>
                   FracLe(Sess.green_duration,
                          get_fuzzy_green(Sess.queue_len, u2))
        /\ Sess.queue_len \in {0, 25, 50} =>
               \A q2 \in {0, 25, 50} :
                   Sess.queue_len <= q2 =>
                       FracLe(Sess.green_duration,
                              get_fuzzy_green(q2, Sess.urgency))

\* C14 witness: the call at queue 25, urgency 0.5 has returned, with a value
\* strictly above the one at queue 0 and strictly below the one at queue 50.
C14_Witness ==
    /\ pc = "fuzzy_return"
    /\ Sess.queue_len = 25
    /\ Sess.urgency = 5
    /\ ~FracLe(Sess.green_duration, get_fuzzy_green(0, 5))
    /\ ~FracLe(get_fuzzy_green(50, 5), Sess.green_duration)

\* C19: at every integer queue length 0..50 and every urgency 0, 0.1, ...,
\* 1.0 some rule fires with strictly positive strength, and the call returns
\* with a non-zero defuzzification denominator.
C19_NoCoverageGap ==
    pc \in {"fuzzy_call", "fuzzy_return", "fuzzy_error"} =>
        /\ \E r \in Rules : Firing(r, Sess.queue_len, Sess.urgency) > 0
        /\ pc # "fuzzy_error"
        /\ pc = "fuzzy_return" => Sess.green_duration[2] > 0

\* C19 witness: a call has returned at a point where the membership
\* functions only just overlap: queue 15, where 'low' has ended, and urgency
\* 0.4, where 'low' has ended; one rule fires.
C19_Witness ==
    /\ pc = "fuzzy_return"
    /\ Sess.queue_len = 15
    /\ Sess.urgency = 4
    /\ Cardinality({r \in Rules :
                        Firing(r, Sess.queue_len, Sess.urgency) > 0}) = 1
    /\ Sess.green_duration[2] > 0

\* C20: at urgency 1.0 the value returned for a queue length is at most the
\* value returned for every longer queue, over 0..50.
C20_MonotoneInQueue ==
    (pc = "fuzzy_return" /\ Sess.urgency = UrgencyMax) =>
        \A q2 \in Sess.queue_len..QueueMax :
            FracLe(Sess.green_duration, get_fuzzy_green(q2, UrgencyMax))

\* C16: the phase a session commands with setPhase at line 73 is the phase
\* of the light as the session started plus 1, and it is the light's phase
\* as line 74 runs; the duration line 74 sets, after the switch, is
\* get_fuzzy_green of the request's queue length and urgency (the entry of
\* the table GreenDurations for them); the only other duration a session
\* sets is the yellow one, before the switch.  The
\* simulator may move the phase and the vehicles during the yellow step.
C16_GreenCommand ==
    /\ pc = "pp_green_dur" =>
           /\ cmd = <<"setPhase", Sess.entryPhase + 1, 1>>
           /\ tlPhase = Sess.entryPhase + 1
    /\ cmd[1] = "setPhaseDuration" =>
           \/ /\ SessState = "YELLOW_CLEARANCE"
              /\ pc = "pp_yellow_step"
              /\ cmd = <<"setPhaseDuration", YellowDuration, 1>>
           \/ /\ SessState = "EMERGENCY_GREEN"
              /\ pc = "pp_await"
              /\ tlPhase = Sess.entryPhase + 1
              /\ LET g == GreenDurations[Sess.queue_len][Sess.urgency]
                 IN cmd = <<"setPhaseDuration", g[1], g[2]>>

\* C16 witness: line 74 has set the duration for the request's queue of 2,
\* after a yellow step during which a vehicle left the lane.
C16_Witness ==
    /\ pc = "pp_await"
    /\ cmd[1] = "setPhaseDuration"
    /\ Sess.queue_len = 2
    /\ LaneVehicleNumber(Sess.ev_lane) = 1
    /\ tlPhase = Sess.entryPhase + 1

\* C17: a trafficlight command is issued by a step of an open session only,
\* and the light's phase changes only by a simulation step or by the setPhase
\* of a session; the scan of a tick that starts no session leaves the light
\* as the simulation step left it.
C17_LightTouchedInSessionOnly ==
    [][ /\ cmd' # NoCmd => (InSession /\ sessions # <<>> /\ sessions' # <<>>)
        /\ tlPhase' # tlPhase =>
               \/ pc \in {"loop", "pp_yellow_step", "pp_await"}
               \/ cmd' = <<"setPhase", tlPhase', 1>>
        /\ pc = "scan" => tlPhase' = tlPhase
      ]_vars

\* C17 witness: a scan has ended without a session although an emergency
\* vehicle is in the network, on a lane that does not show red.
C17_Witness ==
    /\ pc = "scan"
    /\ idList = <<>>
    /\ iterSessions = 0
    /\ cmd = NoCmd
    /\ \E v \in Present : IsEmergencyType(v) /\ ~LaneIsRed(v)

\* C18: while a session is in EMERGENCY_GREEN or AWAIT_CLEARANCE the
\* signal-state character at the index of the session's lane is green
\* (stated for lights of 3 phases or more).
C18_EvLaneGreen ==
    (n >= 3 /\ SessState \in {"EMERGENCY_GREEN", "AWAIT_CLEARANCE"}) =>
        RYGState(tlPhase)[LaneIndex(Sess.ev_lane)] \in {"G", "g"}

Next ==
    \/ LoopStep
    \/ LoopExit
    \/ ScanDone
    \/ ScanLookupFail
    \/ ScanSkip
    \/ ScanNotRed
    \/ ScanEmit
    \/ PPCompute
    \/ PPReadPhase
    \/ PPYellow
    \/ PPYellowStep
    \/ PPGreenPhase
    \/ PPGreenPhaseFail
    \/ PPGreenDuration
    \/ PPAwaitStep
    \/ PPAwaitCheck
    \/ PPRestore
    \/ PPReturn

Spec == Init /\ [][Next]_vars

\* The program is one thread that keeps running: the statement it is at is
\* executed.
Fairness ==
    /\ WF_vars(LoopStep)
    /\ WF_vars(LoopExit)
    /\ WF_vars(ScanDone)
    /\ WF_vars(ScanLookupFail)
    /\ WF_vars(ScanSkip)
    /\ WF_vars(ScanNotRed)
    /\ WF_vars(ScanEmit)
    /\ WF_vars(PPCompute)
    /\ WF_vars(PPReadPhase)
    /\ WF_vars(PPYellow)
    /\ WF_vars(PPYellowStep)
    /\ WF_vars(PPGreenPhase)
    /\ WF_vars(PPGreenPhaseFail)
    /\ WF_vars(PPGreenDuration)
    /\ WF_vars(PPAwaitStep)
    /\ WF_vars(PPAwaitCheck)
    /\ WF_vars(PPRestore)
    /\ WF_vars(PPReturn)

FairSpec == Spec /\ Fairness
====
